---- MODULE Spec2Model ----
(***************************************************************************)
(* Model of the servicesim competition plugins:                            *)
(*   - Checkpoint / ContainCheckpoint  (Checkpoint.cc, Checkpoint.hh)      *)
(*   - CompetitionPlugin               (CompetitionPlugin.cc)              *)
(*   - FollowActorPlugin               (FollowActorPlugin.cc)              *)
(*                                                                         *)
(* Simulation time is counted in whole seconds.  Lengths are counted in    *)
(* decimetres, so the default 1.2 m / 4 m / 2 m / 0.5 m / 0.8 m/s of       *)
(* FollowActorPluginPrivate are 12 / 40 / 20 / 5 / 8.  Comparisons of a    *)
(* vector length with a distance are made exactly, on the squares; only    *)
(* the normalisation of the direction vector rounds (integer square root   *)
(* and integer division).                                                  *)
(***************************************************************************)
EXTENDS Integers, Sequences, FiniteSets, TLC

\* ------------------------------------------------------------------ bounds
MaxStages == 2        \* longest checkpoint list explored
MaxTime == 5          \* simulation time stops advancing here
MaxPending == 2       \* most enable/disable requests in flight per checkpoint
MaxFollowTime == 3    \* simulation time stops advancing here when following

\* ------------------------------------------------------- finite input sets
Weights == {0, 2}
ScorePeriods == {1, 2}

Stages == 1..MaxStages

NoTime == -1          \* the function-local static of OnUpdate before its initialisation
NoMsg == [checkpoints |-> <<>>, score |-> -1]    \* nothing published on /servicesim/score yet

\* ---------------------------------------------------------------- variables
VARIABLES
  simTime,            \* gazebo::physics::World::SimTime()
  numStages,          \* checkpoints.size()
  checkpoints,        \* the Checkpoint objects, 1-based
  current,            \* CompetitionPluginPrivate::current (uint8_t)
  scorePeriod,        \* 1 / scoreFreq
  lastScorePubTime,   \* static local of CompetitionPlugin::OnUpdate
  scoreMsg,           \* last message published on /servicesim/score
  publishedAt,        \* history: simulation time of the last publication
  crashed,            \* the process died on an invalid memory access
  passed,             \* history: Check() == true ticks since the last successful new task
  cycles,             \* history: completed competition cycles
  lastCall,           \* history: the last CompetitionPlugin callback and what it did
  actorPose,          \* actor->WorldPose(): position and heading
  scriptTime,         \* actor->ScriptTime()
  target,             \* FollowActorPluginPrivate::target
  lastUpdate,         \* FollowActorPluginPrivate::lastUpdate
  minDistance,        \* FollowActorPluginPrivate::minDistance
  ignoreModels,       \* FollowActorPluginPrivate::ignoreModels
  modelPos,           \* world poses of the other models of the world
  lastReq,            \* history: the last FollowActorPlugin callback and what it did
  midCall             \* where the callbacks that are not run atomically stand

compVars == <<numStages, checkpoints, current, scorePeriod, lastScorePubTime,
              scoreMsg, publishedAt, crashed, passed, cycles, lastCall>>

followVars == <<actorPose, scriptTime, target, lastUpdate, minDistance,
                ignoreModels, modelPos, lastReq>>

vars == <<simTime, compVars, followVars, midCall>>

\* =================================================================
\* Checkpoint.cc
\* =================================================================

\* A freshly constructed ContainCheckpoint: both gazebo::common::Time members
\* are default constructed (zero), the flags are false.  The last five
\* fields are history: whether Start() ever ran, the simulation time at
\* which the controller advanced past the checkpoint (NoTime: not since its
\* last Start()), whether a contain message with value true was ever
\* received, whether a reply with result true to an enable(true) request was
\* ever received, and whether an enable(true) request was sent since the
\* last Start().
NewCheckpoint(w) ==
  [weight |-> w, startTime |-> 0, endTime |-> 0,
   enabled |-> FALSE, containDone |-> FALSE, subscribed |-> FALSE,
   pending |-> [d \in BOOLEAN |-> 0],
   started |-> FALSE, doneAt |-> NoTime,
   gotTrue |-> FALSE, enableAcked |-> FALSE, requested |-> FALSE]

\* Checkpoint::Score
Score(cp, now) ==
  LET end == IF cp.endTime = 0 THEN now ELSE cp.endTime
      elapsedSeconds == end - cp.startTime
  IN  elapsedSeconds * cp.weight

\* mutant: the checkpoint is checked in the call that starts it
StartThenCheck(cp, now) ==
  LET st == [cp EXCEPT !.startTime = now, !.started = TRUE,
                       !.doneAt = NoTime, !.requested = FALSE]
  IN  IF ~st.enabled /\ ~st.containDone
        THEN [st EXCEPT !.subscribed = TRUE, !.pending[TRUE] = @ + 1,
                        !.requested = TRUE]
        ELSE st

\* Checkpoint::Start
Start(cp, now) ==
  [cp EXCEPT !.startTime = now, !.started = TRUE, !.doneAt = NoTime,
             !.requested = FALSE]

\* ContainCheckpoint::Check, the "first time checking" branch
FirstTimeChecking(cp) == ~cp.enabled /\ ~cp.containDone

\* ContainCheckpoint::Check, the clean-up branch
CleanUpDue(cp) == cp.enabled /\ cp.containDone

\* ContainCheckpoint::Check: the object after the call
Check(cp) ==
  LET c1 == IF FirstTimeChecking(cp)
              THEN [cp EXCEPT !.subscribed = TRUE,
                              !.pending[TRUE] = @ + 1,
                              !.requested = TRUE]
              ELSE cp
      c2 == IF CleanUpDue(cp)
              THEN [c1 EXCEPT !.subscribed = FALSE,
                              !.pending[FALSE] = @ + 1]
              ELSE c1
  IN  c2

\* ContainCheckpoint::Check: the value returned
CheckResult(cp) == cp.containDone

\* number of requests a Check() call on cp sends
RequestsSent(cp) ==
  (IF FirstTimeChecking(cp) THEN 1 ELSE 0) + (IF CleanUpDue(cp) THEN 1 ELSE 0)

InFlight(cp) == cp.pending[TRUE] + cp.pending[FALSE]

\* mutant: the payload of the message is not looked at
ContainAnyValue(cp, data) ==
  [cp EXCEPT !.containDone = TRUE, !.gotTrue = @ \/ data]

\* ContainCheckpoint::OnContain
Contain(cp, data) ==
  [cp EXCEPT !.containDone = data, !.gotTrue = @ \/ data]

\* the callback cb of ContainCheckpoint::Check, run for a request whose
\* payload was data
EnableCb(cp, data, result) ==
  [cp EXCEPT !.pending[data] = @ - 1,
             !.enabled = IF result THEN ~@ ELSE @,
             !.enableAcked = @ \/ (data /\ result)]

\* =================================================================
\* CompetitionPlugin.cc
\* =================================================================

UInt8(n) == n % 256

\* std::vector::operator[] on checkpoints: idx is the 0-based index
ValidIndex(idx) == 0 <= idx /\ idx < numStages

\* mutant: the guard of OnNewTaskRosService dropped
AlreadyRunningNever(cur) == FALSE

\* "if (this->dataPtr->current != 0)" of OnNewTaskRosService
AlreadyRunning(cur) == cur # 0

\* mutant: OnUpdate goes on with index 0
NotStartedNever(cur) == FALSE

\* "if (this->dataPtr->current == 0) return;" of OnUpdate
NotStarted(cur) == cur = 0

\* mutant: off by one in the end-of-competition test
CompetitionCompleteOffByOne(cur) == cur >= numStages

\* "if (this->dataPtr->current > this->dataPtr->checkpoints.size())"
CompetitionComplete(cur) == cur > numStages

\* mutant: the rate limit compares with half the period
TooEarlyToPublishHalved(now, last) == 2 * (now - last) < scorePeriod

\* "if (_info.simTime - lastScorePubTime < 1/this->dataPtr->scoreFreq)"
TooEarlyToPublish(now, last) == now - last < scorePeriod

RECURSIVE Total(_)
Total(scores) ==
  IF scores = <<>> THEN 0 ELSE Head(scores) + Total(Tail(scores))

\* the servicesim_competition::Score message built by OnUpdate
ScoreMessage(cps, now) ==
  LET perCp == [i \in 1..numStages |-> Score(cps[i], now)]
  IN  [checkpoints |-> perCp, score |-> Total(perCp)]

NoCall ==
  [op |-> "none", pre |-> 0, ok |-> FALSE, checked |-> {}, startedCps |-> {},
   oob |-> FALSE, published |-> FALSE, prevPub |-> NoTime]

\* CompetitionPlugin after Load, for every configuration explored.  Load
\* fills the vector in its "Create checkpoints" block; its length is taken
\* as configuration, the empty vector included, since neither callback
\* tests it.  The weights come from the <weight> elements.
CompetitionLoaded ==
  /\ numStages \in 0..MaxStages
  /\ \E w \in [Stages -> Weights] :
       /\ \A i \in Stages : i > numStages => w[i] = 0
       /\ checkpoints = [i \in Stages |-> NewCheckpoint(w[i])]
  /\ current = 0
  /\ scorePeriod \in ScorePeriods
  /\ lastScorePubTime = NoTime
  /\ scoreMsg = NoMsg
  /\ publishedAt = NoTime
  /\ crashed = FALSE
  /\ passed = 0
  /\ cycles = 0
  /\ lastCall = NoCall

\* CompetitionPlugin::OnNewTaskRosService.  checkpoints[0] on an empty
\* vector is an invalid access: the process dies there (crash) or goes on.
OnNewTaskRosService(crash) ==
  /\ ~crashed
  /\ UNCHANGED <<simTime, numStages, scorePeriod, lastScorePubTime, scoreMsg,
                 publishedAt, cycles>>
  /\ UNCHANGED <<followVars, midCall>>
  /\ IF AlreadyRunning(current)
       THEN /\ lastCall' = [NoCall EXCEPT !.op = "NewTask", !.pre = current]
            /\ UNCHANGED <<checkpoints, current, crashed, passed>>
       ELSE /\ current' = 1
            /\ IF ValidIndex(1 - 1)
                 THEN /\ checkpoints' = [checkpoints EXCEPT ![1] = Start(@, simTime)]
                      /\ crashed' = FALSE
                      /\ passed' = 0
                      /\ lastCall' = [NoCall EXCEPT !.op = "NewTask", !.pre = current,
                                                    !.ok = TRUE, !.startedCps = {1}]
                 ELSE /\ checkpoints' = checkpoints
                      /\ crashed' = crash
                      /\ passed' = 0
                      /\ lastCall' = [NoCall EXCEPT !.op = "NewTask", !.pre = current,
                                                    !.ok = ~crash, !.oob = TRUE]

\* CompetitionPlugin::OnUpdate, called at every world iteration with the new
\* simulation time.  ub is what an invalid access to the checkpoint vector
\* does: the process dies (ub.crash) or the call on the garbage object goes
\* on and Check() yields ub.value.
OnUpdate(dt, ub) ==
  LET now        == simTime + dt
      valid      == ValidIndex(current - 1)
      cp         == checkpoints[current]
      done       == IF valid THEN CheckResult(cp) ELSE ub.value
      cps1       == IF valid THEN [checkpoints EXCEPT ![current] = Check(@)]
                             ELSE checkpoints
      next       == UInt8(current + 1)
      complete   == CompetitionComplete(next)
      startValid == ValidIndex(next - 1)
      cur2       == IF ~done THEN current ELSE IF complete THEN 0 ELSE next
      cps2       == IF done /\ valid
                      THEN [cps1 EXCEPT ![current].doneAt = now]
                      ELSE cps1
      cps3       == IF done /\ ~complete /\ startValid
                      THEN [cps2 EXCEPT ![next] = Start(@, now)]
                      ELSE cps2
      oobCheck   == ~valid
      oobStart   == done /\ ~complete /\ ~startValid
      last       == IF lastScorePubTime = NoTime THEN now ELSE lastScorePubTime
      publish    == ~TooEarlyToPublish(now, last)
      call       == [NoCall EXCEPT !.op = "Update", !.pre = current]
  IN
  /\ ~crashed
  /\ now <= MaxTime
  /\ simTime' = now
  /\ UNCHANGED <<numStages, scorePeriod>>
  /\ UNCHANGED <<followVars, midCall>>
  /\ IF NotStarted(current)
       THEN /\ lastCall' = call
            /\ UNCHANGED <<checkpoints, current, lastScorePubTime, scoreMsg,
                           publishedAt, crashed, passed, cycles>>
       ELSE IF oobCheck /\ ub.crash
         THEN \* dies in checkpoints[current - 1]->Check()
              /\ crashed' = TRUE
              /\ lastCall' = [call EXCEPT !.oob = TRUE]
              /\ UNCHANGED <<checkpoints, current, lastScorePubTime, scoreMsg,
                             publishedAt, passed, cycles>>
         ELSE IF oobStart /\ ub.crash
           THEN \* dies in checkpoints[current - 1]->Start(), current already stored
                /\ crashed' = TRUE
                /\ current' = next
                /\ checkpoints' = cps2
                /\ passed' = passed + 1
                /\ lastCall' = [call EXCEPT !.oob = TRUE,
                                            !.checked = IF valid THEN {current} ELSE {}]
                /\ UNCHANGED <<lastScorePubTime, scoreMsg, publishedAt, cycles>>
           ELSE /\ (valid => InFlight(cp) + RequestsSent(cp) <= MaxPending)
                /\ crashed' = FALSE
                /\ current' = cur2
                /\ checkpoints' = cps3
                /\ passed' = IF done THEN passed + 1 ELSE passed
                /\ cycles' = IF done /\ complete THEN cycles + 1 ELSE cycles
                /\ lastScorePubTime' = IF publish THEN now ELSE last
                /\ scoreMsg' = IF publish THEN ScoreMessage(cps3, now) ELSE scoreMsg
                /\ publishedAt' = IF publish THEN now ELSE publishedAt
                /\ lastCall' = [call EXCEPT
                                  !.ok = done,
                                  !.checked = IF valid THEN {current} ELSE {},
                                  !.startedCps = IF done /\ ~complete /\ startValid
                                                   THEN {next} ELSE {},
                                  !.oob = oobCheck \/ oobStart,
                                  !.published = publish,
                                  !.prevPub = publishedAt]

\* the zone's ContainPlugin publishes on <ns>/contain: delivered to
\* ContainCheckpoint::OnContain of every checkpoint subscribed to it
OnContain(i, data) ==
  /\ ~crashed
  /\ i \in 1..numStages
  /\ checkpoints[i].subscribed
  /\ checkpoints' = [checkpoints EXCEPT ![i] = Contain(@, data)]
  /\ UNCHANGED <<simTime, numStages, current, scorePeriod, lastScorePubTime,
                 scoreMsg, publishedAt, crashed, passed, cycles, lastCall>>
  /\ UNCHANGED <<followVars, midCall>>

\* the reply to one <ns>/enable request in flight arrives: the lambda cb of
\* ContainCheckpoint::Check runs with it
EnableCallback(i, data, result) ==
  /\ ~crashed
  /\ i \in 1..numStages
  /\ checkpoints[i].pending[data] > 0
  /\ checkpoints' = [checkpoints EXCEPT ![i] = EnableCb(@, data, result)]
  /\ UNCHANGED <<simTime, numStages, current, scorePeriod, lastScorePubTime,
                 scoreMsg, publishedAt, crashed, passed, cycles, lastCall>>
  /\ UNCHANGED <<followVars, midCall>>

UBOutcomes == [crash : BOOLEAN, value : BOOLEAN]

\* =================================================================
\* FollowActorPlugin.cc
\* =================================================================

\* defaults of FollowActorPluginPrivate, in decimetres (per second)
Velocity == 8
MaxDistance == 40
PickUpRadius == 20
ObstacleMargin == 5
\* "bb.Min().Z() -= 5; bb.Max().Z() += 5", in decimetres
VerticalMargin == 50
\* animationFactor 5.1, in tenths: scriptTime is counted in 1/100
AnimationFactor == 51
\* half the side of every model's bounding box, in decimetres
HalfSize == 3

\* min_distance values explored: the default, and one above max_distance
MinDistances == {12, 60}

ActorName == "guest"
Others == {"robot", "table"}
Models == {ActorName} \cup Others
GuestNames == {ActorName, "other"}
RobotNames == Models \cup {"nobody"}
NoTarget == "null"

Vec(x, y, z) == [x |-> x, y |-> y, z |-> z]

\* where the world can put the other models
Spots ==
  [robot |-> {Vec(20, 0, 10), Vec(50, 0, 10), Vec(20, 0, 40)},
   table |-> {Vec(90, 90, 10), Vec(5, 0, 40)}]

Sub(a, b) == Vec(a.x - b.x, a.y - b.y, a.z - b.z)
Add(a, b) == Vec(a.x + b.x, a.y + b.y, a.z + b.z)

\* square of ignition::math::Vector3d::Length
LengthSq(v) == v.x * v.x + v.y * v.y + v.z * v.z

\* integer square root, rounded down
ISqrt(n) == CHOOSE r \in 0..n : r * r <= n /\ (r + 1) * (r + 1) > n

\* ignition::math::Vector3d::Length, rounded down
Length(v) == ISqrt(LengthSq(v))

\* a / b rounded towards zero
Quot(a, b) == IF a >= 0 THEN a \div b ELSE -((-a) \div b)

\* dir.Normalize() followed by "* velocity * dt": the vector of length
\* step along dir (dir itself when its length is zero)
Scaled(dir, step) ==
  LET len == Length(dir)
  IN  IF len = 0 THEN dir
      ELSE Vec(Quot(dir.x * step, len), Quot(dir.y * step, len),
               Quot(dir.z * step, len))

Sgn(a) == IF a > 0 THEN 1 ELSE IF a < 0 THEN -1 ELSE 0

\* the heading set from atan2(dir.Y(), dir.X()) + IGN_PI_2, kept as the
\* compass sector of the planar direction
Heading(dir) == <<Sgn(dir.x), Sgn(dir.y)>>

\* physics::Model::WorldPose().Pos()
WorldPos(m) == IF m = ActorName THEN actorPose.pos ELSE modelPos[m]

\* world->ModelByName
ModelByName(name) == IF name \in Models THEN name ELSE NoTarget

\* model->BoundingBox()
BoundingBox(m) ==
  LET c == WorldPos(m)
  IN  [min |-> Vec(c.x - HalfSize, c.y - HalfSize, c.z - HalfSize),
       max |-> Vec(c.x + HalfSize, c.y + HalfSize, c.z + HalfSize)]

\* mutant: the box is not grown vertically
InflatedNoVertical(bb) ==
  [min |-> Vec(bb.min.x - ObstacleMargin, bb.min.y - ObstacleMargin,
               bb.min.z - ObstacleMargin),
   max |-> Vec(bb.max.x + ObstacleMargin, bb.max.y + ObstacleMargin,
               bb.max.z + ObstacleMargin)]

\* the box of ObstacleOnTheWay: grown by the margin, then vertically
Inflated(bb) ==
  [min |-> Vec(bb.min.x - ObstacleMargin, bb.min.y - ObstacleMargin,
               bb.min.z - ObstacleMargin - VerticalMargin),
   max |-> Vec(bb.max.x + ObstacleMargin, bb.max.y + ObstacleMargin,
               bb.max.z + ObstacleMargin + VerticalMargin)]

\* ignition::math::Box::Contains
Contains(bb, p) ==
  /\ bb.min.x <= p.x /\ p.x <= bb.max.x
  /\ bb.min.y <= p.y /\ p.y <= bb.max.y
  /\ bb.min.z <= p.z /\ p.z <= bb.max.z

\* mutant: the obstacle test always passes
ObstacleOnTheWayNever == FALSE

\* FollowActorPlugin::ObstacleOnTheWay
ObstacleOnTheWay ==
  \E m \in Models :
    /\ m \notin ignoreModels
    /\ Contains(Inflated(BoundingBox(m)), actorPose.pos)

\* mutant: the hold test lost
TooCloseNever(dir) == FALSE

\* "if (dir.Length() <= this->dataPtr->minDistance)"
TooClose(dir) == minDistance >= 0 /\ LengthSq(dir) <= minDistance * minDistance

\* mutant: the disengagement test lost
TooFarNever(dir) == FALSE

\* mutant: the disengagement test compares with half of maxDistance
TooFarHalved(dir) == 4 * LengthSq(dir) > MaxDistance * MaxDistance

\* "if (dir.Length() > this->dataPtr->maxDistance)"
TooFar(dir) == LengthSq(dir) > MaxDistance * MaxDistance

\* mutant: the height is not restored after the move
KeepHeightDropped(pos, zPos) == pos

\* "actorPose.Pos().Z(zPos)"
KeepHeight(pos, zPos) == [pos EXCEPT !.z = zPos]

\* mutant: the guest name is not compared
WrongGuestNever(name) == FALSE

\* "if (actorName != this->dataPtr->actor->GetName())"
WrongGuest(name) == name # ActorName

\* mutant: the vertical difference is not zeroed
OutOfPickUpRadius3D(actorPos, targetPos) ==
  LengthSq(Sub(actorPos, targetPos)) > PickUpRadius * PickUpRadius

\* "posDiff.Z(0); if (posDiff.Length() > this->dataPtr->pickUpRadius)"
OutOfPickUpRadius(actorPos, targetPos) ==
  LET posDiff == [Sub(actorPos, targetPos) EXCEPT !.z = 0]
  IN  LengthSq(posDiff) > PickUpRadius * PickUpRadius

NoReq ==
  [op |-> "none", pre |-> NoTarget, ok |-> FALSE, success |-> FALSE,
   outcome |-> "none"]

\* "_res.success = true;", the first statement of both request handlers
Received(op) == [NoReq EXCEPT !.op = op, !.pre = target, !.success = TRUE]

\* mutant: a failure branch that returns false without "_res.success = false"
RejectedSuccessKept(req, why) == [req EXCEPT !.ok = FALSE, !.outcome = why]

\* "_res.success = false; return false;"
Rejected(req, why) ==
  [req EXCEPT !.success = FALSE, !.ok = FALSE, !.outcome = why]

\* "return true;"
Granted(req, what) == [req EXCEPT !.ok = TRUE, !.outcome = what]

\* FollowActorPlugin after Load, for every configuration explored
FollowLoaded ==
  /\ actorPose = [pos |-> Vec(0, 0, 10), rot |-> <<0, 0>>]
  /\ scriptTime = 0
  /\ target = NoTarget
  /\ lastUpdate = 0
  /\ minDistance \in MinDistances
  /\ ignoreModels \in {{ActorName}, {ActorName, "robot"}}
  /\ modelPos \in [Others -> UNION {Spots[m] : m \in Others}]
  /\ \A m \in Others : modelPos[m] \in Spots[m]
  /\ lastReq = NoReq

\* FollowActorPlugin::Reset
Reset ==
  /\ target' = NoTarget
  /\ lastUpdate' = 0
  /\ lastReq' = [NoReq EXCEPT !.op = "Reset", !.pre = target]
  /\ UNCHANGED <<actorPose, scriptTime, minDistance, ignoreModels, modelPos>>
  /\ UNCHANGED <<simTime, compVars, midCall>>

\* FollowActorPlugin::OnUpdate, called at every world iteration with the new
\* simulation time
FollowOnUpdate(step) ==
  LET now       == simTime + step
      dt        == now - lastUpdate
      zPos      == actorPose.pos.z
      dir       == Sub(WorldPos(target), actorPose.pos)
      moved     == KeepHeight(Add(actorPose.pos, Scaled(dir, Velocity * dt)), zPos)
      travelled == Length(Sub(moved, actorPose.pos))
      req       == [NoReq EXCEPT !.op = "Update", !.pre = target]
  IN
  /\ now <= MaxFollowTime
  /\ simTime' = now
  /\ lastUpdate' = now
  /\ UNCHANGED <<minDistance, ignoreModels, modelPos, compVars, midCall>>
  /\ IF target = NoTarget
       THEN /\ lastReq' = [req EXCEPT !.outcome = "idle"]
            /\ UNCHANGED <<actorPose, scriptTime, target>>
       ELSE IF ObstacleOnTheWay
         THEN /\ lastReq' = [req EXCEPT !.outcome = "blocked"]
              /\ UNCHANGED <<actorPose, scriptTime, target>>
         ELSE IF TooClose(dir)
           THEN /\ lastReq' = [req EXCEPT !.outcome = "hold"]
                /\ UNCHANGED <<actorPose, scriptTime, target>>
           ELSE IF TooFar(dir)
             THEN /\ target' = NoTarget
                  /\ lastReq' = [req EXCEPT !.outcome = "lost"]
                  /\ UNCHANGED <<actorPose, scriptTime>>
             ELSE /\ actorPose' = [pos |-> moved, rot |-> Heading(dir)]
                  /\ scriptTime' = scriptTime + travelled * AnimationFactor
                  /\ lastReq' = [req EXCEPT !.outcome = "moved"]
                  /\ UNCHANGED target

\* FollowActorPlugin::OnPickUpRosRequest
OnPickUpRosRequest(guest, robot) ==
  LET model == ModelByName(robot)
      req   == Received("PickUp")
  IN
  /\ UNCHANGED <<actorPose, scriptTime, lastUpdate, minDistance, ignoreModels,
                 modelPos, simTime, compVars, midCall>>
  /\ IF WrongGuest(guest)
       THEN /\ lastReq' = Rejected(req, "wrong guest")
            /\ UNCHANGED target
       ELSE IF model = NoTarget
         THEN /\ lastReq' = Rejected(req, "no model")
              /\ UNCHANGED target
         ELSE IF OutOfPickUpRadius(actorPose.pos, WorldPos(model))
           THEN /\ lastReq' = Rejected(req, "too far")
                /\ UNCHANGED target
           ELSE /\ target' = model
                /\ lastReq' = Granted(req, "picked up")

\* FollowActorPlugin::OnDropOffRosRequest
OnDropOffRosRequest(guest) ==
  LET req == Received("DropOff")
  IN
  /\ UNCHANGED <<actorPose, scriptTime, lastUpdate, minDistance, ignoreModels,
                 modelPos, simTime, compVars, midCall>>
  /\ IF WrongGuest(guest)
       THEN /\ lastReq' = Rejected(req, "wrong guest")
            /\ UNCHANGED target
       ELSE /\ target' = NoTarget
            /\ lastReq' = Granted(req, "dropped off")

\* the world moves another model (the robot drives, an obstacle is put down)
MoveModel(m, p) ==
  /\ p \in Spots[m]
  /\ p # modelPos[m]
  /\ modelPos' = [modelPos EXCEPT ![m] = p]
  /\ lastReq' = [NoReq EXCEPT !.op = "Move", !.pre = target]
  /\ UNCHANGED <<actorPose, scriptTime, target, lastUpdate, minDistance,
                 ignoreModels, simTime, compVars, midCall>>

\* =================================================================
\* Specifications
\* =================================================================

\* the follow plugin of a world whose competition is explored
FollowIdle ==
  /\ actorPose = [pos |-> Vec(0, 0, 10), rot |-> <<0, 0>>]
  /\ scriptTime = 0
  /\ target = NoTarget
  /\ lastUpdate = 0
  /\ minDistance = 12
  /\ ignoreModels = {ActorName}
  /\ modelPos = [robot |-> Vec(50, 0, 10), table |-> Vec(90, 90, 10)]
  /\ lastReq = NoReq

\* the competition plugin of a world whose follow plugin is explored
CompetitionIdle ==
  /\ numStages = 1
  /\ checkpoints = [i \in Stages |-> NewCheckpoint(0)]
  /\ current = 0
  /\ scorePeriod = 1
  /\ lastScorePubTime = NoTime
  /\ scoreMsg = NoMsg
  /\ publishedAt = NoTime
  /\ crashed = FALSE
  /\ passed = 0
  /\ cycles = 0
  /\ lastCall = NoCall

\* no callback is part-way through: updateDt is the local dt of a
\* FollowActorPlugin::OnUpdate that has passed its two early returns (NoTime:
\* none has), newTask tells that OnNewTaskRosService has stored the index
\* and not yet called Start()
NoMidCall == [updateDt |-> NoTime, newTask |-> FALSE]

Init == simTime = 0 /\ CompetitionLoaded /\ FollowIdle /\ midCall = NoMidCall

Next ==
  \/ \E crash \in BOOLEAN : OnNewTaskRosService(crash)
  \/ \E ub \in UBOutcomes : OnUpdate(1, ub)
  \/ \E i \in Stages, data \in BOOLEAN : OnContain(i, data)
  \/ \E i \in Stages, data \in BOOLEAN, result \in BOOLEAN : EnableCallback(i, data, result)

Spec == Init /\ [][Next]_vars

InitFollow ==
  simTime = 0 /\ CompetitionIdle /\ FollowLoaded /\ midCall = NoMidCall

NextFollow ==
  \/ FollowOnUpdate(1)
  \/ \E guest \in GuestNames, robot \in RobotNames : OnPickUpRosRequest(guest, robot)
  \/ \E guest \in GuestNames : OnDropOffRosRequest(guest)
  \/ Reset
  \/ \E m \in Others, p \in UNION {Spots[n] : n \in Others} : MoveModel(m, p)

SpecFollow == InitFollow /\ [][NextFollow]_vars

\* =================================================================
\* The callbacks on their threads.  The ROS service callbacks run on the
\* spinner's thread and the update callbacks on the world's thread; neither
\* plugin holds a lock.  The two specifications below split one callback of
\* each plugin where another thread can come in between.
\* =================================================================

\* what reading the pose through a null target can give, when the process
\* survives the read
GarbagePos == {Vec(0, 0, 0), Vec(20, 0, 10)}

NullReadOutcomes == [crash : BOOLEAN, pos : GarbagePos]

\* FollowActorPlugin::OnUpdate up to its two early returns
UpdateEnter(step) ==
  LET now == simTime + step
      req == [NoReq EXCEPT !.op = "Update", !.pre = target]
  IN
  /\ ~crashed
  /\ midCall.updateDt = NoTime
  /\ now <= MaxFollowTime
  /\ simTime' = now
  /\ lastUpdate' = now
  /\ UNCHANGED <<actorPose, scriptTime, target, minDistance, ignoreModels,
                 modelPos, compVars>>
  /\ IF target = NoTarget
       THEN /\ lastReq' = [req EXCEPT !.outcome = "idle"]
            /\ UNCHANGED midCall
       ELSE IF ObstacleOnTheWay
         THEN /\ lastReq' = [req EXCEPT !.outcome = "blocked"]
              /\ UNCHANGED midCall
         ELSE /\ lastReq' = [req EXCEPT !.outcome = "checked"]
              /\ midCall' = [midCall EXCEPT !.updateDt = now - lastUpdate]

\* FollowActorPlugin::OnUpdate from "auto actorPose = ..." on: target is
\* read again for its pose.  ub is what the read through a null target does.
UpdateFinish(ub) ==
  LET dt        == midCall.updateDt
      zPos      == actorPose.pos.z
      targetPos == IF target = NoTarget THEN ub.pos ELSE WorldPos(target)
      dir       == Sub(targetPos, actorPose.pos)
      moved     == KeepHeight(Add(actorPose.pos, Scaled(dir, Velocity * dt)), zPos)
      travelled == Length(Sub(moved, actorPose.pos))
      req       == [NoReq EXCEPT !.op = "Update", !.pre = target]
  IN
  /\ ~crashed
  /\ midCall.updateDt # NoTime
  /\ midCall' = [midCall EXCEPT !.updateDt = NoTime]
  /\ UNCHANGED <<simTime, lastUpdate, minDistance, ignoreModels, modelPos>>
  /\ UNCHANGED <<numStages, checkpoints, current, scorePeriod, lastScorePubTime,
                 scoreMsg, publishedAt, passed, cycles, lastCall>>
  /\ IF target = NoTarget /\ ub.crash
       THEN /\ crashed' = TRUE
            /\ lastReq' = [req EXCEPT !.outcome = "null target"]
            /\ UNCHANGED <<actorPose, scriptTime, target>>
       ELSE /\ crashed' = FALSE
            /\ IF TooClose(dir)
                 THEN /\ lastReq' = [req EXCEPT !.outcome = "hold"]
                      /\ UNCHANGED <<actorPose, scriptTime, target>>
                 ELSE IF TooFar(dir)
                   THEN /\ target' = NoTarget
                        /\ lastReq' = [req EXCEPT !.outcome = "lost"]
                        /\ UNCHANGED <<actorPose, scriptTime>>
                   ELSE /\ actorPose' = [pos |-> moved, rot |-> Heading(dir)]
                        /\ scriptTime' = scriptTime + travelled * AnimationFactor
                        /\ lastReq' = [req EXCEPT !.outcome = "moved"]
                        /\ UNCHANGED target

NextFollowRace ==
  \/ UpdateEnter(1)
  \/ \E ub \in NullReadOutcomes : UpdateFinish(ub)
  \/ \E guest \in GuestNames, robot \in RobotNames :
       ~crashed /\ OnPickUpRosRequest(guest, robot)
  \/ \E guest \in GuestNames : ~crashed /\ OnDropOffRosRequest(guest)
  \/ \E m \in Others, p \in UNION {Spots[n] : n \in Others} :
       ~crashed /\ MoveModel(m, p)

SpecFollowRace == InitFollow /\ [][NextFollowRace]_vars

\* CompetitionPlugin::OnNewTaskRosService up to "this->dataPtr->current = 1;"
NewTaskAssign ==
  /\ ~crashed
  /\ ~midCall.newTask
  /\ UNCHANGED <<simTime, numStages, checkpoints, scorePeriod, lastScorePubTime,
                 scoreMsg, publishedAt, crashed, cycles>>
  /\ UNCHANGED followVars
  /\ IF AlreadyRunning(current)
       THEN /\ lastCall' = [NoCall EXCEPT !.op = "NewTask", !.pre = current]
            /\ UNCHANGED <<current, passed, midCall>>
       ELSE /\ current' = 1
            /\ passed' = 0
            /\ lastCall' = [NoCall EXCEPT !.op = "NewTask", !.pre = current]
            /\ midCall' = [midCall EXCEPT !.newTask = TRUE]

\* CompetitionPlugin::OnNewTaskRosService: "checkpoints[0]->Start();" and
\* the return
NewTaskStart(crash) ==
  /\ ~crashed
  /\ midCall.newTask
  /\ midCall' = [midCall EXCEPT !.newTask = FALSE]
  /\ UNCHANGED <<simTime, numStages, current, scorePeriod, lastScorePubTime,
                 scoreMsg, publishedAt, passed, cycles>>
  /\ UNCHANGED followVars
  /\ IF ValidIndex(1 - 1)
       THEN /\ checkpoints' = [checkpoints EXCEPT ![1] = Start(@, simTime)]
            /\ crashed' = FALSE
            /\ lastCall' = [NoCall EXCEPT !.op = "NewTask", !.pre = 0,
                                          !.ok = TRUE, !.startedCps = {1}]
       ELSE /\ checkpoints' = checkpoints
            /\ crashed' = crash
            /\ lastCall' = [NoCall EXCEPT !.op = "NewTask", !.pre = 0,
                                          !.ok = ~crash, !.oob = TRUE]

NextTaskRace ==
  \/ NewTaskAssign
  \/ \E crash \in BOOLEAN : NewTaskStart(crash)
  \/ \E ub \in UBOutcomes : OnUpdate(1, ub)
  \/ \E i \in Stages, data \in BOOLEAN : OnContain(i, data)
  \/ \E i \in Stages, data \in BOOLEAN, result \in BOOLEAN : EnableCallback(i, data, result)

SpecTaskRace == Init /\ [][NextTaskRace]_vars

\* =================================================================
\* Properties
\* =================================================================

NewTaskStep == \E crash \in BOOLEAN : OnNewTaskRosService(crash)
UpdateStep == \E ub \in UBOutcomes : OnUpdate(1, ub)

\* C1: a new-task request made while current # 0 returns false, leaves
\* current as it was and calls Start() on no checkpoint (no checkpoint
\* object changes).
C1_NewTaskRejectedWhileRunning ==
  [][ NewTaskStep /\ current # 0 =>
        /\ lastCall'.ok = FALSE
        /\ current' = current
        /\ checkpoints' = checkpoints
        /\ lastCall'.startedCps = {} ]_vars

C1_Witness ==
  /\ lastCall.op = "NewTask"
  /\ lastCall.pre # 0
  /\ ~lastCall.ok
  /\ numStages >= 1

\* C2: with N >= 1 checkpoints, after a successful new-task request the index
\* is 1 + the number of ticks on which Check() returned true, until that
\* number is N: then the index is 0 again, and a new-task request made there
\* succeeds and sets the index to 1.
C2_CycleReturnsToZero ==
  numStages >= 1 /\ checkpoints[1].started =>
    /\ passed <= numStages
    /\ (passed < numStages => current = passed + 1)
    /\ (passed = numStages => current = 0)
    /\ (lastCall.op = "NewTask" /\ lastCall.pre = 0 =>
          lastCall.ok /\ current = 1 /\ passed = 0)

C2_Witness ==
  /\ numStages = MaxStages
  /\ cycles >= 1
  /\ lastCall.op = "NewTask"
  /\ lastCall.ok
  /\ current = 1

\* C3: Score() of a checkpoint does not decrease while the checkpoint is
\* active, and once the controller has advanced past the checkpoint it is
\* (completion time - start time) x weight at every later simulation time.
C3_ScoreFrozenAfterCompletion ==
  [][ \A i \in 1..numStages :
        LET cp == checkpoints[i]
            cq == checkpoints'[i]
        IN  /\ (cp.started /\ cp.doneAt = NoTime /\ cq.doneAt = NoTime
                  /\ cq.startTime = cp.startTime
                  => Score(cq, simTime') >= Score(cp, simTime))
            /\ (cq.doneAt # NoTime
                  => Score(cq, simTime') = (cq.doneAt - cq.startTime) * cq.weight)
    ]_vars

PickUpStep(guest, robot) == OnPickUpRosRequest(guest, robot)
FollowUpdateStep == FollowOnUpdate(1)

\* squares of the planar and of the full distance between two positions
PlanarDistSq(a, b) == (a.x - b.x) * (a.x - b.x) + (a.y - b.y) * (a.y - b.y)
DistSq(a, b) == PlanarDistSq(a, b) + (a.z - b.z) * (a.z - b.z)

\* C4: a pickup request succeeds exactly when the guest name is the actor's,
\* the robot name is a model of the world and that model is within
\* pickUpRadius of the actor in the plane; then the target is that model,
\* otherwise the target is what it was.
C4_PickUpIff ==
  [][ \A guest \in GuestNames, robot \in RobotNames :
        PickUpStep(guest, robot) =>
          LET granted ==
                /\ guest = ActorName
                /\ robot \in Models
                /\ PlanarDistSq(actorPose.pos, WorldPos(robot))
                     <= PickUpRadius * PickUpRadius
          IN  /\ lastReq'.ok = granted
              /\ (granted => target' = robot)
              /\ (~granted => target' = target) ]_vars

\* a pickup replaced one target by another, at a different height
C4_Witness ==
  /\ lastReq.op = "PickUp"
  /\ lastReq.ok
  /\ lastReq.pre # NoTarget
  /\ lastReq.pre # target
  /\ WorldPos(target).z # actorPose.pos.z

\* C5 as stated: whenever the target is further than maxDistance at an
\* OnUpdate, the target is null afterwards and the pose is unchanged, whatever
\* the obstacles and minDistance; and a null target stays null until a pickup
\* succeeds.
C5_DisengageAlways ==
  [][ /\ (FollowUpdateStep /\ target # NoTarget
            /\ DistSq(WorldPos(target), actorPose.pos) > MaxDistance * MaxDistance
          => target' = NoTarget /\ actorPose' = actorPose)
      /\ (target = NoTarget /\ target' # NoTarget
          => lastReq'.op = "PickUp" /\ lastReq'.ok) ]_vars

\* C5 amended: the same, on the ticks on which no obstacle is on the way and
\* the distance is also greater than minDistance.
C5_DisengageUnlessBlockedOrHeld ==
  [][ /\ (FollowUpdateStep /\ target # NoTarget
            /\ DistSq(WorldPos(target), actorPose.pos) > MaxDistance * MaxDistance
            /\ ~ObstacleOnTheWay
            /\ DistSq(WorldPos(target), actorPose.pos) > minDistance * minDistance
          => target' = NoTarget /\ actorPose' = actorPose)
      /\ (target = NoTarget /\ target' # NoTarget
          => lastReq'.op = "PickUp" /\ lastReq'.ok) ]_vars

\* the target was dropped by an OnUpdate because it was too far
C5_Witness ==
  /\ lastReq.op = "Update"
  /\ lastReq.outcome = "lost"
  /\ lastReq.pre # NoTarget
  /\ target = NoTarget

\* C6: no OnUpdate changes the actor's vertical coordinate.
C6_HeightKept ==
  [][ FollowUpdateStep => actorPose'.pos.z = actorPose.pos.z ]_vars

\* the actor has just moved towards a target that is at another height
C6_Witness ==
  /\ lastReq.op = "Update"
  /\ lastReq.outcome = "moved"
  /\ target # NoTarget
  /\ WorldPos(target).z # actorPose.pos.z
  /\ actorPose.pos # Vec(0, 0, 10)

\* C7: a drop-off request for another guest fails and leaves the target; one
\* for this actor succeeds and leaves the target null.
C7_DropOff ==
  [][ \A guest \in GuestNames :
        OnDropOffRosRequest(guest) =>
          IF guest # ActorName
            THEN lastReq'.ok = FALSE /\ target' = target
            ELSE lastReq'.ok = TRUE /\ target' = NoTarget ]_vars

\* a drop-off cleared a target that was set
C7_Witness ==
  /\ lastReq.op = "DropOff"
  /\ lastReq.ok
  /\ lastReq.pre # NoTarget
  /\ target = NoTarget

\* C11: a score message is published by an OnUpdate only when at least
\* 1/scoreFreq of simulation time has passed since the last publication, so
\* two consecutive publications are at least 1/scoreFreq apart.
C11_ScoreRateLimited ==
  [][ UpdateStep /\ lastCall'.published =>
        /\ publishedAt' = simTime'
        /\ (publishedAt # NoTime => simTime' - publishedAt >= scorePeriod) ]_vars

\* a second publication has been made, with a period longer than one tick
C11_Witness ==
  /\ numStages >= 1
  /\ lastCall.published
  /\ lastCall.prevPub # NoTime
  /\ scorePeriod > 1
  /\ publishedAt = simTime

\* Check() was called on checkpoint i by an OnUpdate step and returned true
ReturnedTrue(i) ==
  /\ UpdateStep
  /\ current = i
  /\ ValidIndex(i - 1)
  /\ lastCall'.ok

\* C12: Check() returns true only on a checkpoint that has received a contain
\* message with value true.
C12_TrueOnlyAfterContainTrue ==
  [][ \A i \in Stages : ReturnedTrue(i) => checkpoints[i].gotTrue ]_vars

\* Check() has returned true on a checkpoint that received contain(true)
C12_Witness ==
  /\ numStages >= 1
  /\ lastCall.op = "Update"
  /\ lastCall.ok
  /\ lastCall.checked # {}
  /\ \E i \in lastCall.checked : checkpoints[i].gotTrue

\* C13: Check() returns true only on a checkpoint for which a successful
\* reply to an enable request has been received.
C13_TrueOnlyAfterEnableAck ==
  [][ \A i \in Stages : ReturnedTrue(i) => checkpoints[i].enableAcked ]_vars

DropOffStep(guest) == OnDropOffRosRequest(guest)

\* the three conditions of a pickup, read from the state before the request
PickUpGranted(guest, robot) ==
  /\ guest = ActorName
  /\ robot \in Models
  /\ PlanarDistSq(actorPose.pos, WorldPos(robot)) <= PickUpRadius * PickUpRadius

\* C14: in both request handlers the success field of the response equals
\* the value returned: false on every failure branch, true when the request
\* succeeds.
C14_SuccessFieldIsReturnValue ==
  [][ /\ \A guest \in GuestNames, robot \in RobotNames :
           PickUpStep(guest, robot) =>
             /\ lastReq'.success = lastReq'.ok
             /\ lastReq'.success = PickUpGranted(guest, robot)
      /\ \A guest \in GuestNames :
           DropOffStep(guest) =>
             /\ lastReq'.success = lastReq'.ok
             /\ lastReq'.success = (guest = ActorName) ]_vars

\* a pickup for the right guest and an existing robot failed on the radius
C14_Witness ==
  /\ lastReq.op = "PickUp"
  /\ lastReq.outcome = "too far"
  /\ ~lastReq.success
  /\ ~lastReq.ok

\* C15: an OnUpdate changes the pose only when a target is set and no
\* obstacle is on the way; with no target, or with the actor inside the
\* inflated box of a model that is not ignored, it leaves the pose, the
\* script time and the target.
C15_NoMotionWithoutTargetOrWhenBlocked ==
  [][ FollowUpdateStep =>
        /\ (actorPose' # actorPose => target # NoTarget /\ ~ObstacleOnTheWay)
        /\ (target = NoTarget \/
            (\E m \in Models \ ignoreModels :
               LET c == WorldPos(m)
                   p == actorPose.pos
                   h == HalfSize + ObstacleMargin
               IN  /\ c.x - h <= p.x /\ p.x <= c.x + h
                   /\ c.y - h <= p.y /\ p.y <= c.y + h
                   /\ c.z - h - VerticalMargin <= p.z
                   /\ p.z <= c.z + h + VerticalMargin)
            => /\ actorPose' = actorPose
               /\ scriptTime' = scriptTime
               /\ target' = target) ]_vars

\* an OnUpdate was blocked by an obstacle although the target was within
\* following range
C15_Witness ==
  /\ lastReq.op = "Update"
  /\ lastReq.outcome = "blocked"
  /\ target # NoTarget
  /\ DistSq(WorldPos(target), actorPose.pos) > minDistance * minDistance
  /\ DistSq(WorldPos(target), actorPose.pos) <= MaxDistance * MaxDistance

\* a call in which Start() ran on checkpoint i
StartedIn(i) ==
  /\ NewTaskStep \/ UpdateStep
  /\ i \in lastCall'.startedCps

\* C16: over any sequence of new-task requests and updates, several
\* competition cycles included, Start() assigns the startTime of a
\* checkpoint once and never again, and the endTime of a checkpoint is
\* assigned, once, in the update in which it completes.
C16_TimesAssignedOnce ==
  [][ \A i \in Stages :
        /\ StartedIn(i) => ~checkpoints[i].started
        /\ ReturnedTrue(i) => checkpoints'[i].endTime = simTime' ]_vars

\* C17: an update with index k in 1..N calls Check() on checkpoint k only,
\* once; if it returns true and k < N, Start() runs on checkpoint k+1 in the
\* same update and Check() does not run on it; the index moves by at most
\* one stage.
C17_OneStagePerTick ==
  [][ \A k \in Stages :
        UpdateStep /\ current = k /\ k <= numStages =>
          /\ lastCall'.checked = {k}
          /\ InFlight(checkpoints'[k]) =
               InFlight(checkpoints[k]) + RequestsSent(checkpoints[k])
          /\ \A j \in Stages \ {k} :
               /\ checkpoints'[j].pending = checkpoints[j].pending
               /\ checkpoints'[j].subscribed = checkpoints[j].subscribed
          /\ IF lastCall'.ok
               THEN IF k < numStages
                      THEN /\ current' = k + 1
                           /\ lastCall'.startedCps = {k + 1}
                           /\ checkpoints'[k + 1].startTime = simTime'
                      ELSE /\ current' = 0
                           /\ lastCall'.startedCps = {}
               ELSE /\ current' = k
                    /\ lastCall'.startedCps = {} ]_vars

\* Check() returned true on checkpoint 1 of 2: checkpoint 2 has been
\* started at this tick and no request has been sent for it
C17_Witness ==
  /\ numStages = 2
  /\ lastCall.op = "Update"
  /\ lastCall.pre = 1
  /\ lastCall.ok
  /\ current = 2
  /\ lastCall.startedCps = {2}
  /\ checkpoints[2].startTime = simTime
  /\ ~checkpoints[2].requested
  /\ InFlight(checkpoints[2]) = 0

\* C18: an update with index 0 calls no Check() and no Start(), leaves the
\* index at 0 and publishes no score message.
C18_IdleUpdateIsNoOp ==
  [][ UpdateStep /\ current = 0 =>
        /\ current' = 0
        /\ checkpoints' = checkpoints
        /\ lastCall'.checked = {}
        /\ lastCall'.startedCps = {}
        /\ ~lastCall'.oob
        /\ crashed' = crashed
        /\ ~lastCall'.published
        /\ scoreMsg' = scoreMsg
        /\ publishedAt' = publishedAt
        /\ lastScorePubTime' = lastScorePubTime ]_vars

\* an update with index 0 after a finished competition, at a time when a
\* score period has gone by since the last message
C18_Witness ==
  /\ numStages >= 1
  /\ cycles >= 1
  /\ lastCall.op = "Update"
  /\ lastCall.pre = 0
  /\ current = 0
  /\ publishedAt # NoTime
  /\ simTime - publishedAt >= scorePeriod

\* C19: among the Check() calls made on a checkpoint since its Start(), at
\* most one sends an enable(true) request and opens the subscription.
C19_EnableRequestedOnce ==
  [][ \A i \in Stages :
        ( /\ UpdateStep
          /\ current = i
          /\ ValidIndex(i - 1)
          /\ checkpoints'[i].pending[TRUE] > checkpoints[i].pending[TRUE] )
        => ~checkpoints[i].requested ]_vars

\* C20: in the update in which Check() returns true on a checkpoint of the
\* first competition, the subscription is cancelled and a disable request
\* is sent, whatever the order of the enable reply and the contain message.
C20_CleanedUpOnCompletion ==
  [][ \A k \in Stages :
        ReturnedTrue(k) /\ cycles = 0 =>
          /\ ~checkpoints'[k].subscribed
          /\ checkpoints'[k].pending[FALSE] > checkpoints[k].pending[FALSE] ]_vars

\* Check() has returned true on checkpoint i at some earlier update (with
\* N >= 1 a finished cycle has passed every checkpoint)
EverCompleted(i) ==
  /\ ValidIndex(i - 1)
  /\ cycles >= 1 \/ checkpoints[i].doneAt # NoTime

\* an update that calls Check() on checkpoint i
CheckedIn(i) ==
  /\ UpdateStep
  /\ current = i
  /\ ValidIndex(i - 1)

\* C21: once Check() has returned true on a checkpoint, every later Check()
\* on it returns true again or changes nothing, and sends no enable or
\* disable request and opens no subscription.
C21_CheckIdempotentAfterCompletion ==
  [][ \A i \in Stages :
        CheckedIn(i) /\ EverCompleted(i) =>
          /\ checkpoints'[i].pending = checkpoints[i].pending
          /\ checkpoints'[i].subscribed = checkpoints[i].subscribed
          /\ lastCall'.ok \/ ~FirstTimeChecking(checkpoints[i]) ]_vars

\* C22: in the first competition, once a contain message with value true has
\* been delivered to the active checkpoint, the next Check() returns true,
\* also when a message with value false followed it.
C22_ContainLatched ==
  [][ \A i \in Stages :
        CheckedIn(i) /\ cycles = 0 /\ checkpoints[i].gotTrue
          => lastCall'.ok ]_vars

\* C23: at an OnUpdate with a target set, no obstacle on the way and the
\* target within minDistance, the pose is unchanged and the target is kept,
\* also when the target is further than maxDistance.
C23_HoldWithinMinDistance ==
  [][ ( /\ FollowUpdateStep
        /\ target # NoTarget
        /\ ~ObstacleOnTheWay
        /\ DistSq(WorldPos(target), actorPose.pos) <= minDistance * minDistance )
      => /\ actorPose' = actorPose
         /\ scriptTime' = scriptTime
         /\ target' = target ]_vars

\* an OnUpdate held the actor although the target was beyond maxDistance
C23_Witness ==
  /\ lastReq.op = "Update"
  /\ lastReq.outcome = "hold"
  /\ target # NoTarget
  /\ target # ActorName
  /\ DistSq(WorldPos(target), actorPose.pos) > MaxDistance * MaxDistance
  /\ DistSq(WorldPos(target), actorPose.pos) <= minDistance * minDistance

\* C24: at an OnUpdate with a target set at the actor's height, no obstacle
\* and minDistance < distance <= maxDistance, the actor moves by velocity
\* times the simulation time gone by since the previous OnUpdate along the
\* direction to the target, and the target is kept.
C24_MoveByVelocityTimesElapsed ==
  [][ ( /\ FollowUpdateStep
        /\ target # NoTarget
        /\ ~ObstacleOnTheWay
        /\ WorldPos(target).z = actorPose.pos.z
        /\ DistSq(WorldPos(target), actorPose.pos) > minDistance * minDistance
        /\ DistSq(WorldPos(target), actorPose.pos) <= MaxDistance * MaxDistance )
      => /\ actorPose'.pos =
              Add(actorPose.pos,
                  Scaled(Sub(WorldPos(target), actorPose.pos),
                         Velocity * (simTime' - simTime)))
         /\ target' = target ]_vars

\* C25: ObstacleOnTheWay() is true exactly when the actor's position lies in
\* the bounding box, grown by obstacleMargin on every axis and by 5 more
\* below and above, of a model whose name is not in the list of models to
\* ignore; the actor's name is in that list.
C25_ObstacleIffInflatedBoxOfOther ==
  /\ ActorName \in ignoreModels
  /\ ObstacleOnTheWay <=>
       \E m \in Models \ ignoreModels :
         LET c == WorldPos(m)
             p == actorPose.pos
             side == HalfSize + ObstacleMargin
             up == HalfSize + ObstacleMargin + VerticalMargin
         IN  /\ c.x - side <= p.x /\ p.x <= c.x + side
             /\ c.y - side <= p.y /\ p.y <= c.y + side
             /\ c.z - up <= p.z /\ p.z <= c.z + up

\* an OnUpdate was stopped by a model that holds the actor only through the
\* vertical growth of its box, while the robot is ignored
C25_Witness ==
  /\ lastReq.op = "Update"
  /\ lastReq.outcome = "blocked"
  /\ "robot" \in ignoreModels
  /\ ObstacleOnTheWay
  /\ \A m \in Models \ ignoreModels :
       Contains(Inflated(BoundingBox(m)), actorPose.pos) =>
         actorPose.pos.z < WorldPos(m).z - HalfSize - ObstacleMargin

ResetStep == Reset

\* C26 as stated: the target changes only by a successful pickup, which
\* sets it, by a successful drop-off, which clears it, or by the too-far
\* disengagement of an OnUpdate, which clears it.
C26_TargetChangesListed ==
  [][ target' # target =>
        \/ \E guest \in GuestNames, robot \in RobotNames :
             PickUpStep(guest, robot) /\ lastReq'.ok /\ target' = robot
        \/ \E guest \in GuestNames :
             DropOffStep(guest) /\ lastReq'.ok /\ target' = NoTarget
        \/ /\ FollowUpdateStep
           /\ target' = NoTarget
           /\ DistSq(WorldPos(target), actorPose.pos) > MaxDistance * MaxDistance
      ]_vars

\* C26 amended: the same, with Reset as a fourth way: it clears the target.
C26_TargetChangesListedOrReset ==
  [][ target' # target =>
        \/ \E guest \in GuestNames, robot \in RobotNames :
             PickUpStep(guest, robot) /\ lastReq'.ok /\ target' = robot
        \/ \E guest \in GuestNames :
             DropOffStep(guest) /\ lastReq'.ok /\ target' = NoTarget
        \/ /\ FollowUpdateStep
           /\ target' = NoTarget
           /\ DistSq(WorldPos(target), actorPose.pos) > MaxDistance * MaxDistance
        \/ ResetStep /\ target' = NoTarget
      ]_vars

\* a Reset has cleared a target that was set
C26_Witness ==
  /\ lastReq.op = "Reset"
  /\ lastReq.pre # NoTarget
  /\ target = NoTarget

\* the reply to a request with payload data on checkpoint i arrives
EnableReplyStep(i, data, result) == EnableCallback(i, data, result)

\* C27: after a successful reply to an enable(true) request the enabled
\* flag is true, after a successful reply to an enable(false) request it is
\* false, however many requests are in flight and in whatever order the
\* replies come; an unsuccessful reply leaves the flag.
C27_EnabledTracksZone ==
  [][ \A i \in Stages, data \in BOOLEAN :
        /\ EnableReplyStep(i, data, TRUE) => checkpoints'[i].enabled = data
        /\ EnableReplyStep(i, data, FALSE) =>
             checkpoints'[i].enabled = checkpoints[i].enabled ]_vars

\* C30: in a second or later competition Check() returns true on a
\* checkpoint only if the contain subscription of that checkpoint was open at
\* some moment of that competition, without which no contain message can
\* have been received in it.
C30_NoCompletionLeftOver ==
  [][ \A i \in Stages :
        ReturnedTrue(i) /\ cycles >= 1 => checkpoints[i].subscribed ]_vars

\* the second part of an OnUpdate: the pose of the target is read
PoseReadStep == \E ub \in NullReadOutcomes : UpdateFinish(ub)

\* C28: with drop-off requests coming in between the parts of an OnUpdate,
\* the target is not null where the OnUpdate reads its world pose.
C28_TargetSetWherePoseRead ==
  [][ PoseReadStep => target # NoTarget ]_vars

\* C29: in the first competition, with updates coming in between the parts
\* of a new-task request, Start() has been called on a checkpoint before any
\* Check() is called on it.
C29_StartBeforeCheck ==
  [][ \A i \in Stages :
        CheckedIn(i) /\ cycles = 0 => checkpoints[i].started ]_vars

====
